---- MODULE Spec2Model ----
(* s3-concat: remote concatenation of S3 objects through multipart uploads. *)
(* The model follows src/src/main.rs: main, construct_uploads and           *)
(* abort_request, with the S3 gateway's answers as nondeterministic input.  *)
EXTENDS FiniteSets, Integers, Sequences, TLC

(* ------------------------------------------------------------------ *)
(* Bounds of the model                                                *)
(* ------------------------------------------------------------------ *)
MaxObjects == 3
MaxPages == 2
MaxTokens == 5

(* ------------------------------------------------------------------ *)
(* Program constants                                                  *)
(* ------------------------------------------------------------------ *)
MinPartSize == 5000000

(* ------------------------------------------------------------------ *)
(* Keys, pattern and target template                                  *)
(* ------------------------------------------------------------------ *)
(* Keys are sequences of characters. The source pattern is the regex  *)
(* ([ab])[12]? : a letter, then greedily an optional digit.           *)
Letters == {"a", "b"}
Digits == {"1", "2"}

(* The keys a bucket may hold, in the order a listing returns them. *)
AllKeys == << <<"a">>, <<"a", "1">>, <<"b", "1">>, <<"x">> >>

(* Target templates: a sequence of literal characters and "$1" references *)
(* to the capture group: $1 and ${1}m.                                    *)
Templates == { <<"$1">>, <<"$1", "m">> }

Sizes == {MinPartSize - 1, MinPartSize}

NoToken == 0

(* the listing loop is followed for at most this many requests *)
MaxListCalls == MaxPages + 1

(* pattern.is_match(&key): the regex is unanchored *)
IsMatch(key) == \E i \in 1..Len(key) : key[i] \in Letters

(* expansion of the template for one match whose capture group 1 is cap *)
Expand(tpl, cap) == [i \in 1..Len(tpl) |-> IF tpl[i] = "$1" THEN cap ELSE tpl[i]]

(* pattern.replace_all(&key, target): every non-overlapping match, left to *)
(* right, is replaced by the expanded template; other text is kept        *)
RECURSIVE ReplaceAll(_, _)
ReplaceAll(key, tpl) ==
    IF key = <<>> THEN <<>>
    ELSE IF Head(key) \in Letters
         THEN LET n == IF Len(key) >= 2 /\ key[2] \in Digits THEN 2 ELSE 1
              IN  Expand(tpl, Head(key)) \o ReplaceAll(SubSeq(key, n + 1, Len(key)), tpl)
         ELSE <<Head(key)>> \o ReplaceAll(Tail(key), tpl)

(* the size check one byte off *)
BelowMinimumOffByOne(size) == size < MinPartSize - 1

(* entry.size.unwrap() < 5000000 *)
BelowMinimum(size) == size < MinPartSize

(* the self-target check left out *)
SelfTargetNever(full_target, key) == FALSE

(* full_target == key *)
SelfTarget(full_target, key) == full_target = key

(* part numbers counted from zero *)
PartNumberFromZero(srcs) == Cardinality(srcs)

(* part_number: (sources.len() + 1) *)
PartNumber(srcs) == Cardinality(srcs) + 1

(* ------------------------------------------------------------------ *)
(* Results and log records                                            *)
(* ------------------------------------------------------------------ *)
Unset == [kind |-> "unset", key |-> <<>>]
Ok == [kind |-> "ok", key |-> <<>>]
Err(kind, key) == [kind |-> kind, key |-> key]
IsErr(r) == r.kind \notin {"unset", "ok"}

(* one request sent to the gateway, with the answer it got *)
Call(op, key, src, id, part, parts, ok) ==
    [op |-> op, key |-> key, src |-> src, id |-> id, part |-> part, parts |-> parts, ok |-> ok]

Line(msg, a, b) == [msg |-> msg, a |-> a, b |-> b]

(* upload identifiers handed out by the gateway: opaque, never a key *)
IdDigits == <<"1", "2", "3", "4", "5", "6", "7", "8">>
UploadId(n) == <<"#", IdDigits[n]>>
NoId == <<>>

EmptyMap == [x \in {} |-> {}]

(* HashMap::insert *)
MapInsert(m, k, v) == [x \in DOMAIN m \cup {k} |-> IF x = k THEN v ELSE m[x]]

(* HashMap::remove *)
MapRemove(m, k) == [x \in DOMAIN m \ {k} |-> m[x]]

(* ------------------------------------------------------------------ *)
(* types.rs: From<rusoto error> for ConcatError                       *)
(* ------------------------------------------------------------------ *)
(* err.to_string() as a sequence of fragments: the XML declaration,  *)
(* start and end tags, text, text holding an unknown entity, and a    *)
(* stray "<" the reader cannot parse                                  *)
XmlDecl == "<?xml?>"
XmlTokens == {XmlDecl, "<Error>", "<Message>", "</Message>", "text", "&bad;", "<"}
(* adjacent text reaches the reader as one text event, and a declaration *)
(* stands at the start of a document only                                *)
IsText(tok) == tok \in {"text", "&bad;"}
Faults ==
    {msg \in UNION {[1..n -> XmlTokens] : n \in 0..MaxTokens} :
        \A i \in 1..(Len(msg) - 1) :
            /\ ~(IsText(msg[i]) /\ IsText(msg[i + 1]))
            /\ msg[i + 1] # XmlDecl}

ConcatError(msg) == [kind |-> "ConcatError", text |-> msg]

(* .expect("Cannot decode text value") on an Err *)
Panic == [kind |-> "panic", text |-> <<"Cannot decode text value">>]

(* msg.starts_with("<?xml") *)
StartsWithXml(msg) == msg # <<>> /\ Head(msg) = XmlDecl

(* the rest of reader.read_text: read_to_end(b"Message"); open is the *)
(* reader's stack of open elements, innermost first                   *)
RECURSIVE ReadToEnd(_, _, _)
ReadToEnd(ts, open, depth) ==
    IF ts = <<>> THEN FALSE
    ELSE LET h == Head(ts)
         IN  CASE h = "<" -> FALSE
               [] h = "<Message>" -> ReadToEnd(Tail(ts), <<"Message">> \o open, depth + 1)
               [] h = "<Error>" -> ReadToEnd(Tail(ts), <<"Error">> \o open, depth)
               [] h = "</Message>" ->
                     IF open = <<>> \/ Head(open) # "Message" THEN FALSE
                     ELSE IF depth = 0 THEN TRUE
                     ELSE ReadToEnd(Tail(ts), Tail(open), depth - 1)
               [] OTHER -> ReadToEnd(Tail(ts), open, depth)

(* reader.read_text(b"Message", ..).expect(..): the next event is the *)
(* text, or the end tag of an empty element; anything else is an Err  *)
ReadText(ts, msg) ==
    IF ts = <<>> THEN Panic
    ELSE LET h == Head(ts)
         IN  CASE h = "text" ->
                     IF ReadToEnd(Tail(ts), <<"Message">>, 0)
                     THEN ConcatError(<<"text">>) ELSE Panic
               [] h = "</Message>" -> ConcatError(<<>>)
               [] OTHER -> Panic

(* the loop over reader.read_event *)
RECURSIVE Scan(_, _, _)
Scan(ts, open, msg) ==
    IF ts = <<>> THEN ConcatError(msg)
    ELSE LET h == Head(ts)
         IN  CASE h = "<" -> ConcatError(msg)
               [] h = "<Message>" -> ReadText(Tail(ts), msg)
               [] h = "<Error>" -> Scan(Tail(ts), <<"Error">> \o open, msg)
               [] h = "</Message>" ->
                     IF open = <<>> \/ Head(open) # "Message" THEN ConcatError(msg)
                     ELSE Scan(Tail(ts), Tail(open), msg)
               [] OTHER -> Scan(Tail(ts), open, msg)

(* fn from(err) -> ConcatError *)
From(msg) == IF StartsWithXml(msg) THEN Scan(msg, <<>>, msg) ELSE ConcatError(msg)


VARIABLES
    fault,       \* the text of a gateway error, err.to_string()
    converted,   \* what From made of it
    args,        \* command line flags: dry, cleanup, quiet
    target,      \* the target template
    pages,       \* the bucket listing, page by page
    listFailAt,  \* the page whose listing request fails (0: none)
    token,       \* construct_uploads: continuation token
    nextToken,   \* response.next_continuation_token
    entries,     \* entries of response.contents still to iterate
    sources,     \* upload id -> set of source keys
    targets,     \* target key -> upload id
    result,      \* what construct_uploads returned
    exit,        \* what main returned
    pc,          \* position in main / construct_uploads
    pending,     \* targets / sources entries the running loop has not visited
    cur,         \* cleanup: keys of the current source set not yet visited
    calls,       \* requests sent to the gateway, in order
    out,         \* lines printed to stdout
    err,         \* lines printed to stderr
    runNo,       \* 1: first invocation, 2: second invocation on the same bucket
    prevOut      \* stdout of the first invocation

vars == <<fault, converted, args, target, pages, listFailAt, token, nextToken, entries, sources, targets,
          result, exit, pc, pending, cur, calls, out, err, runNo, prevOut>>

env == <<target, pages, listFailAt>>

conv == <<fault, converted>>

(* ------------------------------------------------------------------ *)
(* Buckets                                                            *)
(* ------------------------------------------------------------------ *)
RECURSIVE Ascending(_)
Ascending(S) ==
    IF S = {} THEN <<>>
    ELSE LET m == CHOOSE x \in S : \A y \in S : x <= y
         IN  <<m>> \o Ascending(S \ {m})

(* the listing of the objects S (indices into AllKeys) with sizes sz, cut *)
(* into n pages: object number i of the listing is on page cut[i]         *)
Paginate(S, sz, cut, n) ==
    LET idx == Ascending(S)
        on(p) == {i \in 1..Len(idx) : cut[i] = p}
    IN  [p \in 1..n |->
            [j \in 1..Cardinality(on(p)) |->
                LET i == Ascending(on(p))[j]
                IN  [key |-> AllKeys[idx[i]], size |-> sz[idx[i]]]]]

(* the command line: --dry-run, --cleanup, and --quiet given or not *)
Flags(quiet) == [dry : BOOLEAN, cleanup : BOOLEAN, quiet : {quiet}]

Start(flags) ==
    /\ fault = <<>>
    /\ converted = Unset
    /\ args \in flags
    /\ target \in Templates
    /\ \E S \in SUBSET (1..Len(AllKeys)), n \in 1..MaxPages :
          /\ Cardinality(S) <= MaxObjects
          /\ \E sz \in [S -> Sizes], cut \in [1..Cardinality(S) -> 1..n] :
                /\ \A i, j \in DOMAIN cut : i <= j => cut[i] <= cut[j]
                /\ pages = Paginate(S, sz, cut, n)
                /\ listFailAt \in 0..n
    /\ token = NoToken
    /\ nextToken = NoToken
    /\ entries = <<>>
    /\ sources = EmptyMap
    /\ targets = EmptyMap
    /\ result = Unset
    /\ exit = Unset
    /\ pc = "list"
    /\ pending = {}
    /\ cur = {}
    /\ calls = <<>>
    /\ out = <<>>
    /\ err = <<>>
    /\ runNo = 1
    /\ prevOut = <<>>

Init == Start(Flags(FALSE))

(* the same runs with --quiet on the command line *)
InitQuiet == Start(Flags(TRUE))

(* ------------------------------------------------------------------ *)
(* construct_uploads                                                  *)
(* ------------------------------------------------------------------ *)
ListCount == Cardinality({i \in DOMAIN calls : calls[i].op = "List"})

ListCall(ok) == Call("List", <<>>, <<>>, NoId, token, {}, ok)

(* s3.list_objects_v2(request).sync()? returns the error *)
ListFails ==
    /\ pc = "list"
    /\ ListCount < MaxListCalls
    /\ token + 1 = listFailAt
    /\ calls' = Append(calls, ListCall(FALSE))
    /\ result' = Err("list", <<>>)
    /\ pc' = "post"
    /\ UNCHANGED <<conv, args, env, token, nextToken, entries, sources, targets, exit,
                   pending, cur, out, err, runNo, prevOut>>

(* response.contents.is_none(): continue, with the token as it was *)
ListEmpty ==
    /\ pc = "list"
    /\ ListCount < MaxListCalls
    /\ token + 1 # listFailAt
    /\ pages[token + 1] = <<>>
    /\ calls' = Append(calls, ListCall(TRUE))
    /\ UNCHANGED <<conv, args, env, token, nextToken, entries, sources, targets, result, exit,
                   pc, pending, cur, out, err, runNo, prevOut>>

(* a page with contents: iterate its entries *)
ListPage ==
    /\ pc = "list"
    /\ ListCount < MaxListCalls
    /\ token + 1 # listFailAt
    /\ pages[token + 1] # <<>>
    /\ calls' = Append(calls, ListCall(TRUE))
    /\ entries' = pages[token + 1]
    /\ nextToken' = IF token + 1 < Len(pages) THEN token + 1 ELSE NoToken
    /\ pc' = "entries"
    /\ UNCHANGED <<conv, args, env, token, sources, targets, result, exit,
                   pending, cur, out, err, runNo, prevOut>>

AtEntry == pc = "entries" /\ entries # <<>>
key == Head(entries).key
full_target == ReplaceAll(key, target)

(* where the loop body stops for the entry at hand *)
Matched == AtEntry /\ IsMatch(key)
Sized == Matched /\ ~BelowMinimum(Head(entries).size)
Decided == Sized /\ ~SelfTarget(full_target, key)

(* the dry-run skip left out *)
LiveIgnoresDry == Decided

(* past the dry-run skip *)
Live == Decided /\ ~args.dry

(* println!("Concatenating {} -> {}", key, full_target) *)
Announce == Append(out, Line("Concatenating", key, full_target))

SkipNonMatching ==
    /\ AtEntry
    /\ ~IsMatch(key)
    /\ entries' = Tail(entries)
    /\ UNCHANGED <<conv, args, env, token, nextToken, sources, targets, result, exit, pc,
                   pending, cur, calls, out, err, runNo, prevOut>>

TooSmall ==
    /\ Matched
    /\ BelowMinimum(Head(entries).size)
    /\ result' = Err("size", key)
    /\ pc' = "post"
    /\ UNCHANGED <<conv, args, env, token, nextToken, entries, sources, targets, exit,
                   pending, cur, calls, out, err, runNo, prevOut>>

SkipSelfTarget ==
    /\ Sized
    /\ SelfTarget(full_target, key)
    /\ entries' = Tail(entries)
    /\ UNCHANGED <<conv, args, env, token, nextToken, sources, targets, result, exit, pc,
                   pending, cur, calls, out, err, runNo, prevOut>>

(* the dry-run skip placed before the announcement *)
DrySkipSilent ==
    /\ Decided
    /\ args.dry
    /\ entries' = Tail(entries)
    /\ UNCHANGED <<conv, args, env, token, nextToken, sources, targets, result, exit, pc,
                   pending, cur, calls, out, err, runNo, prevOut>>

DrySkip ==
    /\ Decided
    /\ args.dry
    /\ out' = Announce
    /\ entries' = Tail(entries)
    /\ UNCHANGED <<conv, args, env, token, nextToken, sources, targets, result, exit, pc,
                   pending, cur, calls, err, runNo, prevOut>>

(* the upload a new target gets from the gateway *)
FreshId == UploadId(Cardinality(DOMAIN targets) + 1)

(* the lookup of the target left out: an upload for every source *)
NeedCreateAlways == TRUE

(* !targets.contains_key(&full_target) *)
NeedCreate == full_target \notin DOMAIN targets
upload_id == IF NeedCreate THEN FreshId ELSE targets[full_target]
CreateCall(ok) == Call("Create", full_target, <<>>, IF ok THEN FreshId ELSE NoId, 0, {}, ok)

(* the two maps once the upload identifier is ensured *)
TargetsEnsured == IF NeedCreate THEN MapInsert(targets, full_target, FreshId) ELSE targets
SourcesEnsured == IF NeedCreate THEN MapInsert(sources, FreshId, {}) ELSE sources

CopyCall(ok) ==
    Call("Copy", full_target, key, upload_id, PartNumber(SourcesEnsured[upload_id]), {}, ok)

(* s3.create_multipart_upload(creation).sync()? returns the error *)
CreateFails ==
    /\ Live
    /\ NeedCreate
    /\ out' = Announce
    /\ calls' = Append(calls, CreateCall(FALSE))
    /\ result' = Err("create", full_target)
    /\ pc' = "post"
    /\ UNCHANGED <<conv, args, env, token, nextToken, entries, sources, targets, exit,
                   pending, cur, err, runNo, prevOut>>

(* s3.upload_part_copy(copy_request).sync()? returns the error *)
CopyFails ==
    /\ Live
    /\ out' = Announce
    /\ calls' = calls \o (IF NeedCreate THEN <<CreateCall(TRUE)>> ELSE <<>>) \o <<CopyCall(FALSE)>>
    /\ targets' = TargetsEnsured
    /\ sources' = SourcesEnsured
    /\ result' = Err("copy", key)
    /\ pc' = "post"
    /\ UNCHANGED <<conv, args, env, token, nextToken, entries, exit,
                   pending, cur, err, runNo, prevOut>>

CopyPart ==
    /\ Live
    /\ out' = Announce
    /\ calls' = calls \o (IF NeedCreate THEN <<CreateCall(TRUE)>> ELSE <<>>) \o <<CopyCall(TRUE)>>
    /\ targets' = TargetsEnsured
    /\ sources' = MapInsert(SourcesEnsured, upload_id, SourcesEnsured[upload_id] \cup {key})
    /\ entries' = Tail(entries)
    /\ UNCHANGED <<conv, args, env, token, nextToken, result, exit, pc,
                   pending, cur, err, runNo, prevOut>>

(* after the last entry of a page: break, or go on with the next token *)
PageDone ==
    /\ pc = "entries"
    /\ entries = <<>>
    /\ IF nextToken = NoToken
       THEN result' = Ok /\ pc' = "post" /\ token' = token
       ELSE token' = nextToken /\ pc' = "list" /\ result' = result
    /\ UNCHANGED <<conv, args, env, nextToken, entries, sources, targets, exit,
                   pending, cur, calls, out, err, runNo, prevOut>>

(* ------------------------------------------------------------------ *)
(* main, after construct_uploads                                      *)
(* ------------------------------------------------------------------ *)
(* the error of construct_uploads not looked at *)
AfterConstructIgnoresError(dry, res) == IF dry THEN "return" ELSE "complete"

(* where main goes with the result of construct_uploads *)
AfterConstruct(dry, res) ==
    IF dry THEN "return"
    ELSE IF IsErr(res) THEN "abort"
    ELSE "complete"

(* what main returns when it returns early *)
EarlyReturn(dry, res) == IF dry THEN Ok ELSE res

PostProcess ==
    /\ pc = "post"
    /\ LET next == AfterConstruct(args.dry, result)
       IN  IF next = "return"
           THEN /\ exit' = EarlyReturn(args.dry, result)
                /\ pc' = "done"
                /\ pending' = pending
           ELSE /\ pc' = next
                /\ pending' = DOMAIN targets
                /\ exit' = exit
    /\ UNCHANGED <<conv, args, env, token, nextToken, entries, sources, targets, result,
                   cur, calls, out, err, runNo, prevOut>>

(* key and upload id handed to abort_request in each other's place *)
AbortCallSwapped(t, ok) == Call("Abort", targets[t], <<>>, t, 0, {}, ok)

(* abort_request: the request, and what it prints *)
AbortCall(t, ok) == Call("Abort", t, <<>>, targets[t], 0, {}, ok)
AbortLines(t, ok) ==
    <<Line("Aborting", targets[t], <<>>)>>
        \o (IF ok THEN <<>> ELSE <<Line("Unable to abort", targets[t], <<>>)>>)

(* a failed abort tried again *)
AbortedUnlessFailed(t, ok) == IF ok THEN pending \ {t} ELSE pending

(* abort_request returns nothing: the loop moves to the next entry *)
Aborted(t, ok) == pending \ {t}

(* for (key, upload_id) in targets: abort_request(...) *)
AbortUpload ==
    /\ pc = "abort"
    /\ \E t \in pending, ok \in BOOLEAN :
          /\ calls' = Append(calls, AbortCall(t, ok))
          /\ err' = err \o AbortLines(t, ok)
          /\ pending' = Aborted(t, ok)
    /\ UNCHANGED <<conv, args, env, token, nextToken, entries, sources, targets, result, exit,
                   pc, cur, out, runNo, prevOut>>

(* return result *)
AbortDone ==
    /\ pc = "abort"
    /\ pending = {}
    /\ exit' = result
    /\ pc' = "done"
    /\ UNCHANGED <<conv, args, env, token, nextToken, entries, sources, targets, result,
                   pending, cur, calls, out, err, runNo, prevOut>>

(* the parts the gateway holds for an upload: those copied into it *)
RemoteParts(id) ==
    {calls[i].part : i \in {j \in DOMAIN calls :
                               calls[j].op = "Copy" /\ calls[j].id = id /\ calls[j].ok}}

(* s3.list_parts(parts).sync(): the one response read, which holds the *)
(* parts in ascending order and may be truncated by the gateway        *)
ListedParts(id) == {1..n : n \in 1..Cardinality(RemoteParts(id))}

(* the manifest is built from the response: parts_result.unwrap().parts *)
ListPartsCall(t, listed, ok) ==
    Call("ListParts", t, <<>>, targets[t], 0, IF ok THEN listed ELSE {}, ok)
CompleteCall(t, listed, ok) ==
    Call("Complete", t, <<>>, targets[t], 0, listed, ok)
Completing(t) == Append(out, Line("Completing", targets[t], <<>>))

(* the session visited left in the loop *)
LoopKeeps(t) == pending

(* the completion loop left after the first session *)
LoopStops(t) == {}

(* the sessions the completion loop still has to visit after t *)
LoopOn(t) == pending \ {t}

(* list_parts fails: tell the user, abort, move on *)
ListPartsFails ==
    /\ pc = "complete"
    /\ \E t \in pending, ok \in BOOLEAN :
          /\ out' = Completing(t)
          /\ calls' = calls \o <<ListPartsCall(t, {}, FALSE), AbortCall(t, ok)>>
          /\ err' = err \o <<Line("Unable to list pending parts", targets[t], <<>>)>>
                        \o AbortLines(t, ok)
          /\ pending' = LoopOn(t)
    /\ UNCHANGED <<conv, args, env, token, nextToken, entries, sources, targets, result, exit,
                   pc, cur, runNo, prevOut>>

(* the source sets once the completion of t has failed: sources.remove(&key) *)
SourcesAfterFailure(t) == MapRemove(sources, t)

(* complete_multipart_upload fails: remove the upload sources, abort *)
CompleteFails ==
    /\ pc = "complete"
    /\ \E t \in pending, ok \in BOOLEAN :
          /\ out' = Completing(t)
          /\ \E listed \in ListedParts(targets[t]) :
                calls' = calls \o <<ListPartsCall(t, listed, TRUE),
                                    CompleteCall(t, listed, FALSE), AbortCall(t, ok)>>
          /\ sources' = SourcesAfterFailure(t)
          /\ err' = err \o AbortLines(t, ok)
          /\ pending' = LoopOn(t)
    /\ UNCHANGED <<conv, args, env, token, nextToken, entries, targets, result, exit,
                   pc, cur, runNo, prevOut>>

CompleteUpload ==
    /\ pc = "complete"
    /\ \E t \in pending :
          /\ out' = Completing(t)
          /\ \E listed \in ListedParts(targets[t]) :
                calls' = calls \o <<ListPartsCall(t, listed, TRUE), CompleteCall(t, listed, TRUE)>>
          /\ pending' = LoopOn(t)
    /\ UNCHANGED <<conv, args, env, token, nextToken, entries, sources, targets, result, exit,
                   pc, cur, err, runNo, prevOut>>

(* the removal not waiting for the completion loop *)
FinalizedEarly == TRUE

(* for (key, upload_id) in targets: every entry visited *)
Finalized == pending = {}

(* the completion loop is over: iterate all upload sources *)
CompleteDone ==
    /\ pc = "complete"
    /\ Finalized
    /\ pc' = "cleanup"
    /\ pending' = DOMAIN sources
    /\ cur' = {}
    /\ UNCHANGED <<conv, args, env, token, nextToken, entries, sources, targets, result, exit,
                   calls, out, err, runNo, prevOut>>

(* whether main removes the sources of the sessions left in the map *)
Removes(flags) == TRUE

DeleteCall(k, ok) == Call("Delete", k, <<>>, NoId, 0, {}, ok)

(* for keys in sources.values() { for key in keys { delete_object } } *)
RemoveSource ==
    /\ pc = "cleanup"
    /\ Removes(args)
    /\ \E ok \in BOOLEAN :
          \E u \in (IF cur # {} THEN {NoId} ELSE pending) :
             \E k \in (IF cur # {} THEN cur ELSE sources[u]) :
                /\ cur' = (IF cur # {} THEN cur ELSE sources[u]) \ {k}
                /\ pending' = pending \ {u}
                /\ out' = Append(out, Line("Removing", k, <<>>))
                /\ calls' = Append(calls, DeleteCall(k, ok))
                /\ err' = IF ok THEN err ELSE Append(err, Line("Unable to remove", k, <<>>))
    /\ UNCHANGED <<conv, args, env, token, nextToken, entries, sources, targets, result, exit,
                   pc, runNo, prevOut>>

(* return result *)
CleanupDone ==
    /\ pc = "cleanup"
    /\ \/ ~Removes(args)
       \/ cur = {} /\ \A u \in pending : sources[u] = {}
    /\ exit' = result
    /\ pc' = "done"
    /\ UNCHANGED <<conv, args, env, token, nextToken, entries, sources, targets, result,
                   pending, cur, calls, out, err, runNo, prevOut>>

(* a second invocation, live, on the bucket a dry run has reported on *)
Rerun ==
    /\ pc = "done"
    /\ runNo = 1
    /\ args.dry
    /\ args' = [args EXCEPT !.dry = FALSE]
    /\ runNo' = 2
    /\ prevOut' = out
    /\ token' = NoToken
    /\ nextToken' = NoToken
    /\ entries' = <<>>
    /\ sources' = EmptyMap
    /\ targets' = EmptyMap
    /\ result' = Unset
    /\ exit' = Unset
    /\ pc' = "list"
    /\ pending' = {}
    /\ cur' = {}
    /\ calls' = <<>>
    /\ out' = <<>>
    /\ err' = <<>>
    /\ UNCHANGED <<conv, env>>

Next ==
    \/ ListFails \/ ListEmpty \/ ListPage
    \/ SkipNonMatching \/ TooSmall \/ SkipSelfTarget \/ DrySkip
    \/ CreateFails \/ CopyFails \/ CopyPart \/ PageDone
    \/ PostProcess
    \/ AbortUpload \/ AbortDone
    \/ ListPartsFails \/ CompleteFails \/ CompleteUpload \/ CompleteDone
    \/ RemoveSource \/ CleanupDone

Spec == Init /\ [][Next]_vars

(* one bucket, a dry run and then a live run *)
NextRerun == Next \/ Rerun

SpecRerun == Init /\ [][NextRerun]_vars

SpecQuiet == InitQuiet /\ [][Next]_vars

(* one gateway error handed to From *)
InitConvert ==
    /\ fault \in Faults
    /\ converted = Unset
    /\ args = [dry |-> FALSE, cleanup |-> FALSE, quiet |-> FALSE]
    /\ target = <<"$1">>
    /\ pages = << <<>> >>
    /\ listFailAt = 0
    /\ token = NoToken
    /\ nextToken = NoToken
    /\ entries = <<>>
    /\ sources = EmptyMap
    /\ targets = EmptyMap
    /\ result = Unset
    /\ exit = Unset
    /\ pc = "from"
    /\ pending = {}
    /\ cur = {}
    /\ calls = <<>>
    /\ out = <<>>
    /\ err = <<>>
    /\ runNo = 1
    /\ prevOut = <<>>

Convert ==
    /\ pc = "from"
    /\ converted' = From(fault)
    /\ pc' = "converted"
    /\ UNCHANGED <<fault, args, env, token, nextToken, entries, sources, targets, result,
                   exit, pending, cur, calls, out, err, runNo, prevOut>>

NextConvert == Convert

SpecConvert == InitConvert /\ [][NextConvert]_vars

(* ------------------------------------------------------------------ *)
(* What a run has done, read off the requests it sent                 *)
(* ------------------------------------------------------------------ *)
OpCalls(op) == {i \in DOMAIN calls : calls[i].op = op}
Mutations == {"Create", "Copy", "Complete", "Abort", "Delete"}
Discovery == {"List", "Create", "Copy"}
IsDiscovery(c) == c.op \in Discovery
DiscoveryCalls == SelectSeq(calls, IsDiscovery)

(* sessions that reached Open, their recorded copies and how they ended *)
Opened == {calls[i].key : i \in {j \in OpCalls("Create") : calls[j].ok}}
CopiedInto(t) == {calls[i].src : i \in {j \in OpCalls("Copy") : calls[j].key = t /\ calls[j].ok}}
IsCompleted(t) == \E i \in OpCalls("Complete") : calls[i].key = t /\ calls[i].ok
AbortsOf(t) == {i \in OpCalls("Abort") : calls[i].key = t}
Deleted == {calls[i].key : i \in OpCalls("Delete")}
LiveRun == ~args.dry

(* the bucket listing as one sequence, in discovery order *)
RECURSIVE Flatten(_)
Flatten(ps) == IF ps = <<>> THEN <<>> ELSE Head(ps) \o Flatten(Tail(ps))
Listing == Flatten(pages)
IsSmall(e) == e.size < MinPartSize

(* C1: a DeleteObject call is issued for a source key only if the session   *)
(* the key was copied into ended Completed; the sources of sessions aborted *)
(* in finalization are not deleted, those of Completed sessions all are.    *)
C1_DeletesOnlyCompleted ==
    LiveRun /\ args.cleanup =>
        /\ \A t \in Opened : \A k \in CopiedInto(t) : k \in Deleted => IsCompleted(t)
        /\ pc = "done" /\ result = Ok =>
              \A t \in Opened : IsCompleted(t) => CopiedInto(t) \subseteq Deleted

(* C2: once a discovery step of a live run has failed, no further listing, *)
(* create or copy call is issued, no list-parts, complete or delete call   *)
(* is ever issued, and when the run ends every session that was opened has *)
(* been sent an abort and the run returns the discovery error.             *)
C2_Halted ==
    /\ DiscoveryCalls' = DiscoveryCalls
    /\ OpCalls("ListParts")' = {} /\ OpCalls("Complete")' = {} /\ OpCalls("Delete")' = {}
    /\ pc' = "done" =>
          /\ \A t \in Opened' :
                \E i \in AbortsOf(t)' : calls'[i].id = targets'[t]
          /\ exit' = result

C2_FatalDiscoveryAbortsAll == [][LiveRun /\ IsErr(result) => C2_Halted]_vars

C2_Witness ==
    /\ LiveRun /\ pc = "done" /\ result.kind = "copy"
    /\ Cardinality(Opened) = 2
    /\ \A t \in Opened : AbortsOf(t) # {}

(* C3 as stated: a run that fails on a matching source below 5,000,000  *)
(* bytes fails before any CreateMultipartUpload call is issued, wherever *)
(* in the discovery order that source appears.                           *)
C3_NoCreateBeforeSizeError == result.kind = "size" => OpCalls("Create") = {}

(* C3, amended: when discovery reaches a matching source below 5,000,000   *)
(* bytes it stops there with a size error naming that key, without sending *)
(* any request for it; after a size error no listing, create or copy call  *)
(* is sent, and a live run returns that error.                             *)
C3_SizeErrorStopsDiscovery ==
    [][/\ (Matched /\ IsSmall(Head(entries))) =>
              /\ result' = Err("size", key)
              /\ calls' = calls
              /\ out' = out
       /\ result.kind = "size" =>
              /\ DiscoveryCalls' = DiscoveryCalls
              /\ result' = result
              /\ (LiveRun /\ pc' = "done") => exit' = result]_vars

C3_Witness ==
    /\ LiveRun /\ pc = "done" /\ exit.kind = "size"
    /\ Opened # {}
    /\ \A t \in Opened : AbortsOf(t) # {}
(* the copy requests sent for target t, in order *)
CopiesFor(t) ==
    LET ForT(c) == c.op = "Copy" /\ c.key = t
    IN  SelectSeq(calls, ForT)

(* the sources the listing resolves to target t, in discovery order *)
MatchedFor(t) ==
    LET ForT(e) == /\ IsMatch(e.key)
                   /\ ReplaceAll(e.key, target) = t
                   /\ ReplaceAll(e.key, target) # e.key
        listing == Listing
    IN  SelectSeq(listing, ForT)

(* C4 as stated: the part numbers of the copy requests of a session are *)
(* exactly 1..N, N the number of source keys recorded for the session.  *)
C4_CopyCallsAreRecorded ==
    \A t \in DOMAIN targets :
        LET cs == CopiesFor(t)
        IN  /\ Len(cs) = Cardinality(sources[targets[t]])
            /\ \A k \in DOMAIN cs : cs[k].part = k

(* C4, amended: the copy requests of a session carry the part numbers     *)
(* 1, 2, ... in order, with no gap and no repeat, the k-th of them copies *)
(* the k-th source the listing resolves to the target, and those that     *)
(* succeeded carry exactly 1..N, N the number of source keys recorded;    *)
(* only the last copy request of a run can fail, and it carries N + 1.    *)
C4_PartNumbersFollowDiscovery ==
    \A t \in DOMAIN targets :
        LET cs == CopiesFor(t)
            ms == MatchedFor(t)
            n == Cardinality(sources[targets[t]])
        IN  /\ \A k \in DOMAIN cs :
                  /\ cs[k].part = k
                  /\ cs[k].id = targets[t]
                  /\ k <= Len(ms) /\ cs[k].src = ms[k].key
                  /\ cs[k].ok <=> k <= n
            /\ Len(cs) \in {n, n + 1}
            /\ sources[targets[t]] = {cs[k].src : k \in 1..n}

C4_Witness ==
    /\ pc = "done" /\ result = Ok /\ LiveRun
    /\ Cardinality(DOMAIN targets) = 2
    /\ \E t \in DOMAIN targets : Len(CopiesFor(t)) = 2 /\ CopiesFor(t)[2].ok

(* C5: in a run started without --cleanup no DeleteObject call is issued. *)
C5_NoDeleteWithoutCleanup == ~args.cleanup => OpCalls("Delete") = {}

(* C6: a dry run sends no create, copy, complete, abort or delete request *)
(* and leaves both maps of the session registry empty.                    *)
C6_DryRunMutatesNothing ==
    args.dry =>
        /\ \A i \in DOMAIN calls : calls[i].op \notin Mutations
        /\ targets = EmptyMap
        /\ sources = EmptyMap

C6_Witness ==
    /\ args.dry /\ pc = "done" /\ result = Ok
    /\ Len(out) >= 2
    /\ out[1].b # out[2].b
(* the concatenation decisions a run has reported, in order *)
Decisions(lines) ==
    LET IsDecision(l) == l.msg = "Concatenating"
    IN  SelectSeq(lines, IsDecision)

IsPrefix(s, t) == Len(s) <= Len(t) /\ s = SubSeq(t, 1, Len(s))

(* a live run has ended on the bucket a dry run has ended on *)
BothRunsDone == runNo = 2 /\ pc = "done"

SelfTargets ==
    LET listing == Listing
    IN  {listing[i].key : i \in {j \in DOMAIN listing :
            IsMatch(listing[j].key) /\ ReplaceAll(listing[j].key, target) = listing[j].key}}

(* C8: a matching key whose target is the key itself joins no session: no *)
(* concatenation of it is announced, no upload is created on its behalf,  *)
(* no copy request names it as source, no source set holds it and no      *)
(* delete request names it.                                               *)
C8_SelfTargetExcluded ==
    \A k \in SelfTargets :
        /\ \A i \in DOMAIN out : out[i].msg = "Concatenating" => out[i].a # k
        /\ \A i \in OpCalls("Create") :
              calls[i].key = k =>
                  IF i < Len(calls)
                  THEN calls[i + 1].op = "Copy" /\ calls[i + 1].src # k
                  ELSE result.kind = "create" /\ out[Len(out)].a # k
        /\ \A i \in OpCalls("Copy") : calls[i].src # k
        /\ \A u \in DOMAIN sources : k \notin sources[u]
        /\ k \notin Deleted

C8_Witness ==
    /\ LiveRun /\ pc = "done" /\ result = Ok
    /\ \E k \in SelfTargets :
          /\ k \in DOMAIN targets
          /\ IsCompleted(k)
          /\ CopiedInto(k) # {}
          /\ CopiedInto(k) \subseteq Deleted
    /\ Cardinality(DOMAIN targets) = 2

(* the requests of one kind sent for session t *)
SentFor(op, t) == {i \in OpCalls(op) : calls[i].key = t /\ calls[i].id = targets[t]}

(* C9: in a live run that passed discovery, once the completion loop is  *)
(* over every session got its one list-parts request and, when that      *)
(* succeeded, its one complete request; exactly the sessions whose       *)
(* list-parts or complete request failed were sent an abort, one each;   *)
(* and the run returns no error.                                         *)
C9_FinalizationErrorIsScoped ==
    (LiveRun /\ pc \in {"cleanup", "done"} /\ result = Ok) =>
        /\ \A t \in DOMAIN targets :
              LET lists == SentFor("ListParts", t)
                  completes == SentFor("Complete", t)
                  failed == \E i \in lists \cup completes : ~calls[i].ok
              IN  /\ Cardinality(lists) = 1
                  /\ Cardinality(completes) = (IF \E i \in lists : calls[i].ok THEN 1 ELSE 0)
                  /\ Cardinality(SentFor("Abort", t)) = (IF failed THEN 1 ELSE 0)
                  /\ IsCompleted(t) <=> ~failed
        /\ \A i \in OpCalls("Abort") : calls[i].key \in DOMAIN targets
        /\ pc = "done" => exit = Ok

C9_Witness ==
    /\ LiveRun /\ pc = "done" /\ exit = Ok
    /\ \E i, j, k \in DOMAIN calls :
          /\ i < j /\ j < k
          /\ calls[i].op = "Complete" /\ ~calls[i].ok
          /\ calls[j].op = "Abort" /\ calls[j].key = calls[i].key
          /\ calls[k].op = "Complete" /\ calls[k].ok /\ calls[k].key # calls[i].key

(* C10: the process returns an error exactly when discovery failed, in a *)
(* live run and in a dry run, and the error is the discovery error.      *)
C10_ExitIsDiscoveryResult == pc = "done" => exit = result
(* the successful create requests for target t *)
CreatedFor(t) == {i \in OpCalls("Create") : calls[i].key = t /\ calls[i].ok}

(* C11: at most one CreateMultipartUpload succeeds per target key, the    *)
(* registry binds the target to the upload id it returned, and every copy *)
(* request for the target comes after it and names that upload id.        *)
C11_OneUploadPerTarget ==
    \A t \in {calls[i].key : i \in OpCalls("Create") \cup OpCalls("Copy")} :
        LET created == CreatedFor(t)
        IN  /\ Cardinality(created) <= 1
            /\ \A i \in created : t \in DOMAIN targets /\ targets[t] = calls[i].id
            /\ \A j \in OpCalls("Copy") :
                  calls[j].key = t =>
                      \E i \in created : i < j /\ calls[j].id = calls[i].id

C11_Witness ==
    /\ LiveRun /\ pc = "done" /\ result = Ok
    /\ Cardinality(DOMAIN targets) = 2
    /\ \E t \in DOMAIN targets :
          /\ Cardinality(CreatedFor(t)) = 1
          /\ Cardinality({j \in OpCalls("Copy") : calls[j].key = t /\ calls[j].id = targets[t]}) = 2
(* the first Message element of an XML envelope, when it is well formed *)
MessageAt(msg, i) ==
    /\ msg[i] = "<Message>"
    /\ \A j \in 1..(i - 1) : msg[j] \notin {"<Message>", "</Message>", "<"}
    /\ \/ i + 1 <= Len(msg) /\ msg[i + 1] = "</Message>"
       \/ i + 2 <= Len(msg) /\ msg[i + 1] = "text" /\ msg[i + 2] = "</Message>"

MessageText(msg, i) == IF msg[i + 1] = "text" THEN <<"text">> ELSE <<>>

(* C12: the conversion never fails: it yields the Message text when the *)
(* error text is an XML envelope holding a Message element, and the raw *)
(* error text in every other case.                                      *)
C12_ConversionNeverFails ==
    pc = "converted" =>
        /\ converted.kind = "ConcatError"
        /\ IF StartsWithXml(fault) /\ \E i \in DOMAIN fault : MessageAt(fault, i)
           THEN \E i \in DOMAIN fault :
                   MessageAt(fault, i) /\ converted = ConcatError(MessageText(fault, i))
           ELSE converted = ConcatError(fault)
(* the failures a run reports itself: a part listing that failed, an *)
(* abort or a removal that failed                                     *)
ReportedFailures ==
    {i \in OpCalls("ListParts") \cup OpCalls("Abort") \cup OpCalls("Delete") : ~calls[i].ok}

(* C13: with --quiet no informational line (Concatenating, Completing, *)
(* Removing) is printed, while failures still reach the error stream.   *)
C13_QuietPrintsOnlyErrors ==
    args.quiet =>
        /\ out = <<>>
        /\ ReportedFailures # {} => err # <<>>
(* requests of the phases after discovery *)
Finalizing == OpCalls("ListParts") \cup OpCalls("Complete")
AfterDiscovery(c) == c.op \in {"ListParts", "Complete", "Abort", "Delete"}

(* every page of the listing was requested and answered *)
ListedAllPages ==
    {calls[i].part + 1 : i \in {j \in OpCalls("List") : calls[j].ok}} = 1..Len(pages)

(* the session of target t has ended before request d *)
EndedBefore(t, d) ==
    \E i \in 1..(d - 1) :
        /\ calls[i].key = t
        /\ \/ calls[i].op = "Complete" /\ calls[i].ok
           \/ calls[i].op = "Abort"

(* C14: the phases never overlap: no list-parts or complete request is  *)
(* sent before the last listing page has been processed, no list,       *)
(* create or copy request is sent once finalization has begun, and no   *)
(* delete request is sent before every session of the registry has been *)
(* completed or aborted.                                                *)
C14_PhasesNeverOverlap ==
    /\ Finalizing # {} => result = Ok /\ entries = <<>> /\ ListedAllPages
    /\ \A j \in DOMAIN calls :
          IsDiscovery(calls[j]) => \A i \in 1..(j - 1) : ~AfterDiscovery(calls[i])
    /\ \A d \in OpCalls("Delete"), t \in DOMAIN targets : EndedBefore(t, d)

C14_Witness ==
    /\ pc = "done"
    /\ Cardinality(DOMAIN targets) = 2
    /\ Len(pages) = 2
    /\ \E t \in DOMAIN targets : IsCompleted(t)
    /\ \E t \in DOMAIN targets : AbortsOf(t) # {}
    /\ Cardinality(OpCalls("Delete")) >= 2
(* the requests that name an upload session, and how far along its life *)
(* each one stands                                                      *)
NamesSession(i) == calls[i].op \in {"Create", "Copy", "ListParts", "Complete", "Abort"}
Stage(i) ==
    CASE calls[i].op = "Create" -> 1
      [] calls[i].op = "Copy" -> 2
      [] calls[i].op = "ListParts" -> 3
      [] calls[i].op = "Complete" -> 4
      [] calls[i].op = "Abort" -> 5
Terminal(i) == calls[i].op = "Abort" \/ (calls[i].op = "Complete" /\ calls[i].ok)

(* C15: a session only moves forward (create, copies, list-parts,     *)
(* complete, abort), and once it is Completed or Aborted no further   *)
(* copy, list-parts, complete or abort request names its upload id:   *)
(* no session is both Completed and Aborted.                          *)
C15_SessionsMoveForward ==
    \A j \in DOMAIN calls :
        NamesSession(j) =>
            \A i \in 1..(j - 1) :
                NamesSession(i) /\ calls[i].key = calls[j].key =>
                    /\ calls[i].id = calls[j].id
                    /\ Stage(i) <= Stage(j)
                    /\ Stage(i) = Stage(j) => calls[i].op = "Copy"
                    /\ ~Terminal(i)

C15_Witness ==
    /\ pc = "done"
    /\ \E i, j, k \in DOMAIN calls :
          /\ i < j /\ j < k
          /\ calls[i].op = "Complete" /\ calls[i].ok
          /\ calls[j].op = "Complete" /\ ~calls[j].ok
          /\ calls[k].op = "Abort" /\ calls[k].id = calls[j].id
    /\ OpCalls("Delete") # {}
(* the abort requests that failed *)
FailedAborts == {i \in OpCalls("Abort") : ~calls[i].ok}

(* C16: a failed abort is reported and otherwise ignored: a session gets *)
(* at most one abort request, and the run goes on to abort or finalize   *)
(* every other session and ends with the result it would have had.       *)
C16_FailedAbortIsNotFatal ==
    /\ \A t \in DOMAIN targets : Cardinality(AbortsOf(t)) <= 1
    /\ \A i \in FailedAborts :
          \E n \in DOMAIN err : err[n] = Line("Unable to abort", calls[i].id, <<>>)
    /\ LiveRun /\ pc = "done" =>
          /\ exit = result
          /\ \A t \in DOMAIN targets :
                IF IsErr(result) THEN Cardinality(AbortsOf(t)) = 1
                ELSE IsCompleted(t) \/ Cardinality(AbortsOf(t)) = 1

C16_Witness ==
    /\ pc = "done"
    /\ IsErr(result) /\ exit = result
    /\ \E i \in FailedAborts, j \in OpCalls("Abort") : i < j /\ calls[j].ok
(* C17: discovery ends on every finite listing: a page without entries *)
(* either ends it (no continuation token) or is followed by a request  *)
(* for the next page, so no continuation token, the absent one         *)
(* included, is ever requested twice.                                  *)
C17_NoTokenRequestedTwice ==
    \A i, j \in OpCalls("List") : i < j => calls[i].part # calls[j].part
(* discovery stands at a matching entry whose target is the entry's key *)
AtSelfTarget == AtEntry /\ IsMatch(key) /\ SelfTarget(full_target, key)

(* C18: a matching entry whose computed target equals its own key is a *)
(* no-op whatever its size: no request is sent, the registry and the   *)
(* result stay as they are, and discovery goes on with the next entry. *)
C18_SelfTargetIsNoOp ==
    [][AtSelfTarget =>
          /\ calls' = calls
          /\ sources' = sources /\ targets' = targets
          /\ result' = result
          /\ entries' = Tail(entries)]_vars
(* request i names a target and the upload id an earlier successful *)
(* create returned for it                                           *)
NamesCreated(i) ==
    \E j \in 1..(i - 1) :
        /\ calls[j].op = "Create" /\ calls[j].ok
        /\ calls[j].key = calls[i].key /\ calls[j].id = calls[i].id

C20_ManifestCoversSources ==
    \A i \in OpCalls("Complete") :
        calls[i].ok => calls[i].parts = 1..Cardinality(sources[calls[i].id])
====
